---- MODULE Spec2Model ----
(***************************************************************************)
(* Model of alphastarmini/core/rl/learner_process.py: the LearnerProcess   *)
(* of the actor-learner architecture.  Producers append trajectories to    *)
(* three pools; the run loop, started in a child process by start(),       *)
(* samples batches from the ordinary pool and updates the model.           *)
(***************************************************************************)
EXTENDS Integers, Sequences, FiniteSets, TLC

\* ------------------------------------------------------------------ bounds
\* producer appends to the ordinary pool after construction
MaxAppends == 2
\* producer appends to the win pool and to the final pool
MaxClassAppends == 1
\* direct sampling calls in SpecSample
MaxCalls == 2
\* lists up to this length are shuffled into every permutation
MaxPerm == 3

\* ------------------------------------------------- configurations explored
\* max_time_for_training; <<>> stands for a value that is not a number (None)
MaxTimes == {<<>>, <<0>>, <<1>>, <<2>>}
BufferSizes == {0, 1, 2}
CountsOfBatches == {1, 2}
NumEpochs == {1, 2}
\* AHP.batch_size and AHP.sequence_length (hyper_parameters, external)
BatchSizes == {1, 32}
SequenceLengths == {2}
\* ordinary pool length when the learner is constructed
InitPoolSizes == {0, 2, 40}
\* reading of time() when the learner is constructed
InitClocks == {3}
\* SpecSample: count_of_batches, batch_size and the three pool lengths
SampleCounts == {0, 1, 2}
SampleBatchSizes == {1, 5}
SampleOrdSizes == {0, 8, 100}
SampleWinSizes == {0, 5, 129}
SampleFinalSizes == {0, 3, 65}

\* --------------------------------------------------------------- constants
\* len(self.win_trajectories) > 128
WinKeep == 128
\* len(self.final_trajectories) > 64
FinalKeep == 64

\* ----------------------------------------------------------------- helpers
Min(a, b) == IF a <= b THEN a ELSE b
Max(a, b) == IF a >= b THEN a ELSE b

\* a trajectory is opaque: its class and a serial number
Traj(kind, i) == <<kind, i>>
Fresh(kind, n) == [i \in 1..n |-> Traj(kind, i)]

Range(s) == {s[i] : i \in 1..Len(s)}
Occurrences(s, x) == Cardinality({i \in 1..Len(s) : s[i] = x})

\* Python s[:n]
PySliceTo(s, n) ==
    IF n >= 0 THEN SubSeq(s, 1, Min(n, Len(s)))
              ELSE SubSeq(s, 1, Max(Len(s) + n, 0))
\* Python s[n:]
PySliceFrom(s, n) ==
    IF n >= 0 THEN SubSeq(s, Min(n, Len(s)) + 1, Len(s))
              ELSE SubSeq(s, Max(Len(s) + n, 0) + 1, Len(s))

VARIABLES
    \* configuration, fixed by __init__
    max_time_for_training, is_rl_training, num_epochs, count_of_batches,
    buffer_size, use_random_sample, batch_size, sequence_length,
    \* the pools
    pool,               \* the ordinary pool object given to __init__: a list
                        \* shared between processes, producers append to it
    trajectories,       \* the list self.trajectories of the sampling learner
    aliased,            \* self.trajectories is still the shared pool object
    win_trajectories, final_trajectories,
    \* the run loop (child process)
    pc, is_running, clock, start_time,
    \* is_running of the learner object in the process that called start()
    parent_is_running,
    \* update_parameters
    batch, ep_id, batch_id, steps, model_mode, checkpoints, metrics,
    \* history
    batches,            \* every sample batch returned so far, in order
    sent,               \* ordinary trajectories ever put in the pool: ids 1..sent
    appends,            \* send_trajectory calls since construction
    sent_win, sent_final,
    iterations, update_calls, raised, shuffles,
    \* direct sampling calls (SpecSample)
    last_call, before, calls,
    drawn               \* taken by the last direct call: <<win, final, ordinary>>

config == <<max_time_for_training, is_rl_training, num_epochs, count_of_batches,
            buffer_size, use_random_sample, batch_size, sequence_length>>
pools == <<pool, trajectories, aliased, win_trajectories, final_trajectories>>
loop == <<pc, is_running, clock, start_time, parent_is_running>>
upd == <<batch, ep_id, batch_id, steps, model_mode, checkpoints, metrics>>
hist == <<batches, sent, appends, sent_win, sent_final, iterations, update_calls, raised,
          shuffles>>
direct == <<last_call, before, calls, drawn>>
vars == <<config, pools, loop, upd, hist, direct>>

\* sample_size = self.count_of_batches * batch_size
SampleSize == count_of_batches * batch_size
\* faulty variant: the gate forgets buffer_size
Threshold_NoBuffer == count_of_batches * batch_size
\* faulty variant: the threshold ignores count_of_batches
Threshold_NoCount == buffer_size * batch_size
\* self.buffer_size * self.count_of_batches * AHP.batch_size
Threshold == buffer_size * count_of_batches * batch_size

IsNumber(t) == Len(t) = 1

\* faulty variant: the counter advances by the batch size alone
StepIncrement_BatchOnly == batch_size
\* agent.steps += AHP.batch_size * AHP.sequence_length
StepIncrement == batch_size * sequence_length

\* ----------------------------------------------------------------- sampling
\* get_normal_trajectories: trajectories_reduced = self.trajectories[:sample_size]
NormalTaken(t, n) == PySliceTo(t, n)
\* faulty variant: the remainder starts one element late
NormalRest_OffByOne(t, n) == IF Len(t) > 0 THEN PySliceFrom(t, n + 1) ELSE t
\* if len(self.trajectories) > 0: self.trajectories = self.trajectories[sample_size:]
NormalRest(t, n) == IF Len(t) > 0 THEN PySliceFrom(t, n) ELSE t

\* sample_final = min(1, int(sample_size * split_ratio[1])), split_ratio[1] = 0.2
SampleFinal(n) == Min(1, (n * 2) \div 10)
\* faulty variant: the quota is at least one, whatever the sample size
SampleWin_AtLeastOne(n) == Max(1, n \div 10)
\* sample_win = min(1, int(sample_size * split_ratio[2])), split_ratio[2] = 0.1
SampleWin(n) == Min(1, n \div 10)

Perms(s) ==
    {[i \in 1..Len(s) |-> s[f[i]]] :
        f \in {g \in [1..Len(s) -> 1..Len(s)] :
                  \A i, j \in 1..Len(s) : g[i] = g[j] => i = j}}
Reverse(s) == [i \in 1..Len(s) |-> s[Len(s) + 1 - i]]
\* random.shuffle(x): any permutation of x.  Every permutation of a short list;
\* of a longer one the given order and the reversal
ShuffleOutcomes(s) ==
    IF Len(s) <= MaxPerm THEN Perms(s)
    ELSE {s, Reverse(s)}

\* faulty variant: the class pool is cut from `keep` elements on
ClassRest_CutAtKeep(shuffled, quota, keep) ==
    IF Len(shuffled) >= keep THEN PySliceFrom(shuffled, quota) ELSE shuffled
\* faulty variant: the class pool is cut whatever its length
ClassRest_AlwaysCut(shuffled, quota, keep) == PySliceFrom(shuffled, quota)
\* the class pool after the pass: cut only when it holds more than `keep`
ClassRest(shuffled, quota, keep) ==
    IF Len(shuffled) > keep THEN PySliceFrom(shuffled, quota) ELSE shuffled

\* faulty variant: the budget left for the ordinary pool is reduced by the win
\* quota, not by the number of win trajectories taken
Residual_ByQuota(n, taken_win, taken_final) == n - SampleWin(n) - Len(taken_final)
\* reduce_sample_size = sample_size - trajectories_win_length, then
\* reduce_sample_size = reduce_sample_size - trajectories_final_length
Residual(n, taken_win, taken_final) == n - Len(taken_win) - Len(taken_final)

\* faulty variant: a batch shorter than sample_size passes
LengthAsserted_AtMost(result, n) == Len(result) <= n
\* assert len(trajectories) == sample_size
LengthAsserted(result, n) == Len(result) = n

\* ---------------------------------------------------------------- __init__
InitLearner ==
    /\ is_running = FALSE
    /\ parent_is_running = FALSE
    /\ pc = "idle"
    /\ clock \in InitClocks
    /\ start_time = 0
    /\ batch = <<>>
    /\ ep_id = 0
    /\ batch_id = 0
    /\ steps = 0
    /\ model_mode = "eval"
    /\ checkpoints = 0
    /\ metrics = 0
    /\ batches = <<>>
    /\ iterations = 0
    /\ update_calls = 0
    /\ raised = FALSE
    /\ shuffles = 0
    /\ last_call = "none"
    /\ before = <<>>
    /\ calls = 0
    /\ drawn = <<0, 0, 0>>
    /\ aliased = TRUE
    /\ appends = 0
    /\ sent_win = 0
    /\ sent_final = 0

Init ==
    /\ InitLearner
    /\ max_time_for_training \in MaxTimes
    /\ is_rl_training \in BOOLEAN
    /\ num_epochs \in NumEpochs
    /\ count_of_batches \in CountsOfBatches
    /\ buffer_size \in BufferSizes
    /\ use_random_sample \in BOOLEAN
    /\ batch_size \in BatchSizes
    /\ sequence_length \in SequenceLengths
    /\ \E n \in InitPoolSizes :
          /\ pool = Fresh("ord", n)
          /\ trajectories = Fresh("ord", n)
          /\ sent = n
    /\ win_trajectories = <<>>
    /\ final_trajectories = <<>>

\* ------------------------------------------------------------- producers
\* send_trajectory on the learner object of the process that constructed it:
\* its self.trajectories is the shared pool object
send_trajectory ==
    /\ appends < MaxAppends
    /\ appends' = appends + 1
    /\ sent' = sent + 1
    /\ pool' = Append(pool, Traj("ord", sent + 1))
    /\ trajectories' = IF aliased THEN pool' ELSE trajectories
    /\ UNCHANGED <<config, aliased, win_trajectories, final_trajectories, loop,
                   upd, batches, sent_win, sent_final, iterations, update_calls,
                   raised, shuffles, direct>>

send_final_trajectory ==
    /\ sent_final < MaxClassAppends
    /\ sent_final' = sent_final + 1
    /\ final_trajectories' = Append(final_trajectories, Traj("final", sent_final + 1))
    /\ UNCHANGED <<config, pool, trajectories, aliased, win_trajectories, loop,
                   upd, batches, sent, appends, sent_win, iterations, update_calls,
                   raised, shuffles, direct>>

send_win_trajectory ==
    /\ sent_win < MaxClassAppends
    /\ sent_win' = sent_win + 1
    /\ win_trajectories' = Append(win_trajectories, Traj("win", sent_win + 1))
    /\ UNCHANGED <<config, pool, trajectories, aliased, final_trajectories, loop,
                   upd, batches, sent, appends, sent_final, iterations, update_calls,
                   raised, shuffles, direct>>

\* ------------------------------------------------------------- the run loop
\* start(): self.process.start() runs run() in a child process on a copy of the
\* learner object; the caller's object is not touched
start ==
    /\ pc = "idle"
    /\ pc' = "run"
    /\ UNCHANGED <<config, pools, is_running, clock, start_time, parent_is_running,
                   upd, hist, direct>>

\* run(): start_time = time(); self.is_running = True
run_begin ==
    /\ pc = "run"
    /\ start_time' = clock
    /\ is_running' = TRUE
    /\ pc' = "while"
    /\ UNCHANGED <<config, pools, clock, parent_is_running, upd, hist, direct>>

\* faulty variant: the time-to-live test admits an elapsed time equal to it
run_while_Inclusive ==
    /\ pc = "while"
    /\ IF ~IsNumber(max_time_for_training)
         THEN pc' = "except_outer" /\ UNCHANGED iterations
         ELSE IF clock - start_time <= max_time_for_training[1]
                THEN pc' = "gate" /\ iterations' = iterations + 1
                ELSE pc' = "finally" /\ UNCHANGED iterations
    /\ UNCHANGED <<config, pools, is_running, clock, start_time, parent_is_running,
                   upd, batches, sent, appends, sent_win, sent_final, update_calls,
                   raised, shuffles, direct>>

\* while time() - start_time < self.max_time_for_training: a value that is not
\* a number raises outside the inner handler
run_while ==
    /\ pc = "while"
    /\ IF ~IsNumber(max_time_for_training)
         THEN pc' = "except_outer" /\ UNCHANGED iterations
         ELSE IF clock - start_time < max_time_for_training[1]
                THEN pc' = "gate" /\ iterations' = iterations + 1
                ELSE pc' = "finally" /\ UNCHANGED iterations
    /\ UNCHANGED <<config, pools, is_running, clock, start_time, parent_is_running,
                   upd, batches, sent, appends, sent_win, sent_final, update_calls,
                   raised, shuffles, direct>>

\* faulty variant: below the threshold the loop waits for trajectories
run_gate_Blocking ==
    /\ pc = "gate"
    /\ Len(trajectories) >= Threshold
    /\ pc' = "update"
    /\ update_calls' = update_calls + 1
    /\ UNCHANGED <<config, pools, is_running, clock, start_time, parent_is_running,
                   upd, batches, sent, appends, sent_win, sent_final, iterations,
                   raised, shuffles, direct>>

\* if len(self.trajectories) >= buffer_size * count_of_batches * batch_size:
\*     self.update_parameters()
run_gate ==
    /\ pc = "gate"
    /\ IF Len(trajectories) >= Threshold
         THEN pc' = "update" /\ update_calls' = update_calls + 1
         ELSE pc' = "sleep" /\ UNCHANGED update_calls
    /\ UNCHANGED <<config, pools, is_running, clock, start_time, parent_is_running,
                   upd, batches, sent, appends, sent_win, sent_final, iterations,
                   raised, shuffles, direct>>

\* faulty variant: the training flag is not consulted
update_enter_AlwaysTrain ==
    /\ pc = "update"
    /\ pc' = "sample"
    /\ UNCHANGED <<config, pools, is_running, clock, start_time, parent_is_running,
                   upd, hist, direct>>

\* update_parameters: if not self.is_rl_training: return
update_enter ==
    /\ pc = "update"
    /\ pc' = IF is_rl_training THEN "sample" ELSE "sleep"
    /\ UNCHANGED <<config, pools, is_running, clock, start_time, parent_is_running,
                   upd, hist, direct>>

\* get_normal_trajectories, first half: the slice self.trajectories[:sample_size]
\* and the assertion on its length
normal_slice ==
    /\ pc = "sample"
    /\ LET taken == NormalTaken(trajectories, SampleSize) IN
         IF LengthAsserted(taken, SampleSize)
           THEN /\ batch' = taken
                /\ pc' = "rebind"
                /\ UNCHANGED raised
           ELSE /\ batch' = <<>>
                /\ pc' = "except"
                /\ raised' = TRUE
    /\ UNCHANGED <<config, pools, is_running, clock, start_time, parent_is_running,
                   ep_id, batch_id, steps, model_mode, checkpoints, metrics,
                   batches, sent, appends, sent_win, sent_final, iterations,
                   update_calls, shuffles, direct>>

\* get_normal_trajectories, second half: if len(self.trajectories) > 0:
\* self.trajectories = self.trajectories[sample_size:]; return trajectories.
\* The assignment binds the attribute to a new list: the shared pool object keeps
\* its contents and later appends to it do not reach the new list
normal_rebind ==
    /\ pc = "rebind"
    /\ trajectories' = NormalRest(trajectories, SampleSize)
    /\ aliased' = (aliased /\ Len(trajectories) = 0)
    /\ batches' = Append(batches, batch)
    /\ pc' = "train_mode"
    /\ UNCHANGED <<config, pool, win_trajectories, final_trajectories, is_running,
                   clock, start_time, parent_is_running, upd, sent, appends,
                   sent_win, sent_final, iterations, update_calls, raised,
                   shuffles, direct>>

\* agent.agent_nn.model.train()
update_train_mode ==
    /\ pc = "train_mode"
    /\ model_mode' = "train"
    /\ ep_id' = 0
    /\ batch_id' = 0
    /\ pc' = IF num_epochs > 0 /\ count_of_batches > 0 THEN "minibatch" ELSE "save"
    /\ UNCHANGED <<config, pools, is_running, clock, start_time, parent_is_running,
                   batch, steps, checkpoints, metrics, hist, direct>>

\* faulty variant: a checkpoint is written at the end of every epoch
update_minibatch_SaveEachEpoch ==
    /\ pc = "minibatch"
    /\ \/ /\ metrics' = metrics + 1
          /\ steps' = steps + StepIncrement
          /\ clock' \in {clock, clock + 1}
          /\ IF batch_id + 1 < count_of_batches
               THEN /\ batch_id' = batch_id + 1
                    /\ pc' = "minibatch"
                    /\ UNCHANGED <<ep_id, checkpoints>>
               ELSE /\ batch_id' = 0
                    /\ ep_id' = ep_id + 1
                    /\ checkpoints' = checkpoints + 1
                    /\ pc' = IF ep_id + 1 < num_epochs THEN "minibatch" ELSE "eval"
          /\ UNCHANGED raised
       \/ /\ raised' = TRUE
          /\ pc' = "except"
          /\ UNCHANGED <<metrics, steps, batch_id, ep_id, clock, checkpoints>>
    /\ UNCHANGED <<config, pools, is_running, start_time, parent_is_running,
                   batch, model_mode, batches, sent, appends, sent_win,
                   sent_final, iterations, update_calls, shuffles, direct>>

\* one pass of the inner loop body: loss_function, writer.add_scalar,
\* optimizer.zero_grad, loss.backward, optimizer.step, agent.steps += ...
\* (the computation may take time).
\* The loss, the backward pass and the optimizer step are external and may raise
update_minibatch ==
    /\ pc = "minibatch"
    /\ \/ /\ metrics' = metrics + 1
          /\ steps' = steps + StepIncrement
          /\ clock' \in {clock, clock + 1}
          /\ IF batch_id + 1 < count_of_batches
               THEN batch_id' = batch_id + 1 /\ UNCHANGED ep_id /\ pc' = "minibatch"
               ELSE /\ batch_id' = 0
                    /\ ep_id' = ep_id + 1
                    /\ pc' = IF ep_id + 1 < num_epochs THEN "minibatch" ELSE "save"
          /\ UNCHANGED raised
       \/ /\ raised' = TRUE
          /\ pc' = "except"
          /\ UNCHANGED <<metrics, steps, batch_id, ep_id, clock>>
    /\ UNCHANGED <<config, pools, is_running, start_time, parent_is_running,
                   batch, model_mode, checkpoints, batches, sent, appends, sent_win,
                   sent_final, iterations, update_calls, shuffles, direct>>

\* del trajectories; torch.save(...): the write may raise
update_save ==
    /\ pc = "save"
    /\ \/ /\ checkpoints' = checkpoints + 1
          /\ pc' = "eval"
          /\ UNCHANGED raised
       \/ /\ raised' = TRUE
          /\ pc' = "except"
          /\ UNCHANGED checkpoints
    /\ batch' = <<>>
    /\ UNCHANGED <<config, pools, is_running, clock, start_time, parent_is_running,
                   ep_id, batch_id, steps, model_mode, metrics, batches, sent,
                   appends, sent_win, sent_final, iterations, update_calls,
                   shuffles, direct>>

\* agent.agent_nn.model.eval(); update_parameters returns
update_eval ==
    /\ pc = "eval"
    /\ model_mode' = "eval"
    /\ pc' = "sleep"
    /\ UNCHANGED <<config, pools, is_running, clock, start_time, parent_is_running,
                   batch, ep_id, batch_id, steps, checkpoints, metrics, hist, direct>>

\* sleep(0.05): the clock advances
run_sleep ==
    /\ pc = "sleep"
    /\ clock' = clock + 1
    /\ pc' = "while"
    /\ UNCHANGED <<config, pools, is_running, start_time, parent_is_running, upd,
                   hist, direct>>

\* faulty variant: the handler does not break: the loop goes on
run_except_NoBreak ==
    /\ pc = "except"
    /\ pc' = "sleep"
    /\ UNCHANGED <<config, pools, is_running, clock, start_time, parent_is_running,
                   upd, hist, direct>>

\* except Exception as e: ...; break
run_except ==
    /\ pc = "except"
    /\ pc' = "finally"
    /\ UNCHANGED <<config, pools, is_running, clock, start_time, parent_is_running,
                   upd, hist, direct>>

\* the outer handler: except Exception as e: print(...)
run_except_outer ==
    /\ pc = "except_outer"
    /\ pc' = "finally"
    /\ UNCHANGED <<config, pools, is_running, clock, start_time, parent_is_running,
                   upd, hist, direct>>

\* faulty variant: run() returns without clearing the flag
run_finally_FlagKept ==
    /\ pc = "finally"
    /\ pc' = "stopped"
    /\ UNCHANGED <<config, pools, is_running, clock, start_time, parent_is_running,
                   upd, hist, direct>>

\* finally: self.is_running = False; run() returns and the child process ends
run_finally ==
    /\ pc = "finally"
    /\ is_running' = FALSE
    /\ pc' = "stopped"
    /\ UNCHANGED <<config, pools, clock, start_time, parent_is_running, upd, hist,
                   direct>>

Next ==
    \/ send_trajectory
    \/ send_final_trajectory
    \/ send_win_trajectory
    \/ start
    \/ run_begin
    \/ run_while
    \/ run_gate
    \/ update_enter
    \/ normal_slice
    \/ normal_rebind
    \/ update_train_mode
    \/ update_minibatch
    \/ update_save
    \/ update_eval
    \/ run_sleep
    \/ run_except
    \/ run_except_outer
    \/ run_finally

Spec == Init /\ [][Next]_vars

\* the steps of run() in the child process
run_step ==
    \/ run_begin
    \/ run_while
    \/ run_gate
    \/ update_enter
    \/ normal_slice
    \/ normal_rebind
    \/ update_train_mode
    \/ update_minibatch
    \/ update_save
    \/ update_eval
    \/ run_sleep
    \/ run_except
    \/ run_except_outer
    \/ run_finally

\* The started child process is scheduled: run() takes its next step, every
\* external call in it returns or raises, and sleep(0.05) returns.  Nothing is
\* assumed of the producers nor of the caller of start()
SpecFair == Spec /\ WF_vars(run_step)

\* ------------------------------------------ direct calls of the samplers
\* The learner is constructed with pools of any of the listed lengths and its
\* sampling methods are called on it, one call after the other
InitSample ==
    /\ InitLearner
    /\ max_time_for_training = <<0>>
    /\ is_rl_training = TRUE
    /\ num_epochs = 1
    /\ buffer_size = 1
    /\ sequence_length \in SequenceLengths
    /\ count_of_batches \in SampleCounts
    /\ batch_size \in SampleBatchSizes
    /\ use_random_sample \in BOOLEAN
    /\ \E n \in SampleOrdSizes :
          /\ pool = Fresh("ord", n)
          /\ trajectories = Fresh("ord", n)
          /\ sent = n
    /\ \E n \in SampleWinSizes : win_trajectories = Fresh("win", n)
    /\ \E n \in SampleFinalSizes : final_trajectories = Fresh("final", n)

Snapshot == [trajectories |-> trajectories, win |-> win_trajectories,
             final |-> final_trajectories]

\* get_normal_trajectories(), the whole call
get_normal_trajectories ==
    /\ pc = "idle"
    /\ calls < MaxCalls
    /\ calls' = calls + 1
    /\ before' = Snapshot
    /\ LET taken == NormalTaken(trajectories, SampleSize) IN
         IF LengthAsserted(taken, SampleSize)
           THEN /\ trajectories' = NormalRest(trajectories, SampleSize)
                /\ aliased' = (aliased /\ Len(trajectories) = 0)
                /\ batches' = Append(batches, taken)
                /\ last_call' = "normal"
                /\ drawn' = <<0, 0, Len(taken)>>
           ELSE /\ UNCHANGED <<trajectories, aliased, batches>>
                /\ last_call' = "normal_raised"
                /\ drawn' = <<0, 0, Len(taken)>>
    /\ UNCHANGED <<config, pool, win_trajectories, final_trajectories, loop, upd,
                   sent, appends, sent_win, sent_final, iterations, update_calls,
                   raised, shuffles>>

\* get_mixed_trajectories(), the whole call.  w, f and o are the results of the
\* three random.shuffle calls (a list that is not shuffled keeps its order)
get_mixed_trajectories ==
    /\ pc = "idle"
    /\ calls < MaxCalls
    /\ calls' = calls + 1
    /\ before' = Snapshot
    /\ \E w \in (IF Len(win_trajectories) > 0
                   THEN ShuffleOutcomes(win_trajectories) ELSE {win_trajectories}),
          f \in (IF Len(final_trajectories) > 0
                   THEN ShuffleOutcomes(final_trajectories) ELSE {final_trajectories}),
          o \in (IF use_random_sample
                   THEN ShuffleOutcomes(trajectories) ELSE {trajectories}) :
         LET sample_size == SampleSize
             sample_final == SampleFinal(sample_size)
             sample_win == SampleWin(sample_size)
             trajectories_win ==
                 IF Len(w) > 0 THEN PySliceTo(w, sample_win) ELSE <<>>
             trajectories_final ==
                 IF Len(f) > 0 THEN PySliceTo(f, sample_final) ELSE <<>>
             reduce_sample_size ==
                 Residual(sample_size, trajectories_win, trajectories_final)
             trajectories_reduced == PySliceTo(o, reduce_sample_size)
             result == trajectories_win \o trajectories_final \o trajectories_reduced
         IN  /\ win_trajectories' = ClassRest(w, sample_win, WinKeep)
             /\ final_trajectories' = ClassRest(f, sample_final, FinalKeep)
             /\ shuffles' = IF use_random_sample THEN shuffles + 1 ELSE shuffles
             /\ pool' = IF aliased THEN o ELSE pool
             /\ drawn' = <<Len(trajectories_win), Len(trajectories_final),
                           Len(trajectories_reduced)>>
             /\ IF LengthAsserted(result, sample_size)
                  THEN /\ trajectories' = NormalRest(o, reduce_sample_size)
                       /\ aliased' = (aliased /\ Len(o) = 0)
                       /\ batches' = Append(batches, result)
                       /\ last_call' = "mixed"
                  ELSE /\ trajectories' = o
                       /\ UNCHANGED <<aliased, batches>>
                       /\ last_call' = "mixed_raised"
    /\ UNCHANGED <<config, loop, upd, sent, appends, sent_win, sent_final,
                   iterations, update_calls, raised>>

NextSample ==
    \/ get_normal_trajectories
    \/ get_mixed_trajectories

SpecSample == InitSample /\ [][NextSample]_vars

\* ================================================================== claims
Last(q) == q[Len(q)]
RECURSIVE Flatten(_)
Flatten(q) == IF q = <<>> THEN <<>> ELSE q[1] \o Flatten(Tail(q))

\* C1: under any interleaving of send_trajectory with the run loop, every
\* appended ordinary trajectory is either still in the list the learner reads
\* (self.trajectories of the run loop) or has been delivered in exactly one
\* sample batch: none is lost to the learner, none is delivered twice.
C1_NoAppendLost ==
    LET all == Flatten(batches) IN
    \A i \in 1..sent :
        Occurrences(trajectories, Traj("ord", i)) + Occurrences(all, Traj("ord", i)) = 1

\* C2: whenever the ordinary pool holds at least sample_size trajectories,
\* get_normal_trajectories returns exactly the first sample_size of them in pool
\* order and leaves exactly the former remainder, in its order.
C2_UniformTakesPrefix ==
    (last_call \in {"normal", "normal_raised"}
        /\ Len(before.trajectories) >= count_of_batches * batch_size)
    => /\ last_call = "normal"
       /\ Last(batches) =
             SubSeq(before.trajectories, 1, count_of_batches * batch_size)
       /\ trajectories =
             SubSeq(before.trajectories, count_of_batches * batch_size + 1,
                    Len(before.trajectories))
       /\ Len(trajectories) =
             Len(before.trajectories) - count_of_batches * batch_size
C2_Witness ==
    /\ last_call = "normal"
    /\ count_of_batches * batch_size > 1
    /\ Len(trajectories) > 0
    /\ Len(before.trajectories) = Len(trajectories) + count_of_batches * batch_size

\* C3: get_mixed_trajectories returns a batch of exactly sample_size
\* trajectories for all win, final and ordinary pool lengths, provided the
\* ordinary pool holds at least sample_size minus what was drawn from the win
\* and final pools.
C3_MixedBatchLength ==
    (last_call \in {"mixed", "mixed_raised"}
        /\ Len(before.trajectories)
              >= count_of_batches * batch_size - drawn[1] - drawn[2])
    => /\ last_call = "mixed"
       /\ Len(Last(batches)) = count_of_batches * batch_size
       /\ drawn[1] + drawn[2] + drawn[3] = count_of_batches * batch_size
C3_Witness ==
    /\ last_call = "mixed"
    /\ drawn[1] > 0 /\ drawn[2] > 0 /\ drawn[3] > 0
    /\ Len(Last(batches)) = count_of_batches * batch_size

\* C4: in mixed sampling the win quota is max(1, floor(sample_size * 0.1)) and
\* the final quota max(1, floor(sample_size * 0.2)); the batch holds
\* min(win pool, win quota) win trajectories, min(final pool, final quota) final
\* trajectories and the rest ordinary ones (sample_size 10, pools 5/3/100:
\* 1 win + 2 final + 7 ordinary).
C4_MixedQuotas ==
    last_call = "mixed" =>
        LET n == count_of_batches * batch_size
            win_quota == Max(1, n \div 10)
            final_quota == Max(1, (2 * n) \div 10)
        IN  /\ drawn[1] = Min(Len(before.win), win_quota)
            /\ drawn[2] = Min(Len(before.final), final_quota)
            /\ drawn[3] = n - drawn[1] - drawn[2]

\* C5: the update step draws its batch with the strategy the configuration
\* selects; with the random-sample option set the ordinary pool is shuffled
\* before the batch is taken, and the outcome-balanced strategy takes win and
\* final trajectories into the batch when those pools hold any.
C5_ConfiguredSampling ==
    (Len(batches) > 0 /\ use_random_sample) => shuffles >= Len(batches)

\* C6 (as stated): every trajectory placed in a sample batch is removed from its
\* pool, so no trajectory appears in two sample batches.
C6_NoTrajectoryTwice ==
    LET all == Flatten(batches) IN
    \A i, j \in 1..Len(all) : all[i] = all[j] => i = j

\* C6 (amended): every ordinary trajectory placed in a sample batch is removed
\* from the learner's ordinary list, so no ordinary trajectory appears in two
\* sample batches; a win (final) trajectory placed in a batch is removed from its
\* pool exactly when that pool held more than 128 (64) elements at the call,
\* and otherwise stays in the pool.
C6_RemovedWhenSampled ==
    LET all == Flatten(batches)
        left == Range(trajectories)
    IN
    /\ \A i, j \in 1..Len(all) : (all[i] = all[j] /\ all[i][1] = "ord") => i = j
    /\ \A i \in 1..Len(all) : all[i][1] = "ord" => all[i] \notin left
    /\ last_call = "mixed" =>
          \A k \in 1..Len(Last(batches)) :
             /\ Last(batches)[k][1] = "win" =>
                   (Last(batches)[k] \in Range(win_trajectories)
                       <=> Len(before.win) <= 128)
             /\ Last(batches)[k][1] = "final" =>
                   (Last(batches)[k] \in Range(final_trajectories)
                       <=> Len(before.final) <= 64)
C6_Witness ==
    /\ last_call = "mixed"
    /\ Len(batches) = 2
    /\ drawn[1] > 0 /\ drawn[2] > 0 /\ drawn[3] > 0
    /\ Len(before.win) > 128
    /\ Len(before.final) <= 64
    /\ Len(win_trajectories) = Len(before.win) - drawn[1]
    /\ Len(final_trajectories) = Len(before.final)

\* C7: in each iteration of the run loop update_parameters is invoked exactly
\* when the ordinary list holds at least buffer_size * count_of_batches *
\* batch_size trajectories, and at most once per iteration; with 40
\* trajectories, buffer_size 1, count_of_batches 1 and batch_size 32 one update
\* runs, takes a batch of 32 and leaves 8.
C7_UpdateGate ==
    /\ [][(pc = "gate" /\ pc' # pc)
            => /\ pc' \in {"update", "sleep"}
               /\ (pc' = "update"
                     <=> Len(trajectories) >= buffer_size * count_of_batches * batch_size)
               /\ update_calls' = IF pc' = "update" THEN update_calls + 1
                                                    ELSE update_calls]_vars
    /\ [][update_calls' # update_calls => pc = "gate"]_vars
    /\ [](update_calls <= iterations)
    /\ []((buffer_size = 1 /\ count_of_batches = 1 /\ batch_size = 32
             /\ sent - appends = 40 /\ is_rl_training)
          => /\ update_calls <= 1
             /\ Len(batches) <= 1
             /\ Len(batches) = 1 =>
                   /\ batches[1] = Fresh("ord", 32)
                   /\ PySliceTo(trajectories, 8) = [i \in 1..8 |-> Traj("ord", 32 + i)]
                   /\ Len(trajectories) <= 8 + appends)
C7_Witness ==
    /\ buffer_size = 1 /\ count_of_batches = 1 /\ batch_size = 32
    /\ sent - appends = 40 /\ is_rl_training
    /\ pc = "stopped"
    /\ update_calls = 1
    /\ iterations = 2
    /\ Len(batches) = 1
    /\ Len(trajectories) = 8

\* C8: when update_parameters raises in an iteration of the run loop the loop
\* ends at once: no further iteration, no further update attempt, and
\* is_running is false once the loop has stopped.
C8_RaiseEndsLoop ==
    /\ [](raised => pc \in {"except", "finally", "stopped"})
    /\ [](raised /\ pc = "stopped" => ~is_running)
    /\ [][raised => /\ iterations' = iterations
                    /\ update_calls' = update_calls
                    /\ batches' = batches
                    /\ steps' = steps]_vars
C8_Witness ==
    /\ raised
    /\ pc = "stopped"
    /\ ~is_running
    /\ iterations = 2
    /\ update_calls = 2

\* C9: on every exit path of run() (time-to-live expiry, exception inside an
\* iteration, exception outside the inner handler) is_running is false once
\* run() has returned, and it is never true again.
C9_FlagClearedOnExit ==
    /\ [](pc = "stopped" => ~is_running)
    /\ [][pc = "stopped" => (pc' = "stopped" /\ ~is_running')]_vars
    /\ [][(pc \in {"except", "except_outer"} => pc' \in {pc, "finally"})]_vars
    /\ [][(pc = "finally" => pc' \in {pc, "stopped"})]_vars
C9_Witness ==
    /\ pc = "stopped"
    /\ ~is_running
    /\ ~raised
    /\ IsNumber(max_time_for_training)
    /\ checkpoints > 0
    /\ clock - start_time >= max_time_for_training[1]

\* C10: the is_running flag read on the learner object in the process that
\* called start() follows the run loop: false before start, true while the
\* loop runs, false once the loop has stopped.
C10_MonitorSeesLoop ==
    /\ pc = "idle" => ~parent_is_running
    /\ pc \in {"while", "gate", "update", "sample", "rebind", "train_mode",
               "minibatch", "save", "eval", "sleep"} => parent_is_running
    /\ pc = "stopped" => ~parent_is_running

\* C11: with max_time_for_training = 0 the run loop performs no iteration and
\* no update attempt, whatever the pools hold, and ends with is_running false.
C11_ZeroTimeToLive ==
    (IsNumber(max_time_for_training) /\ max_time_for_training[1] = 0)
    => /\ iterations = 0
       /\ update_calls = 0
       /\ batches = <<>>
       /\ steps = 0
       /\ pc \in {"idle", "run", "while", "finally", "stopped"}
       /\ pc = "stopped" => ~is_running
C11_Witness ==
    /\ IsNumber(max_time_for_training) /\ max_time_for_training[1] = 0
    /\ pc = "stopped"
    /\ ~is_running
    /\ is_rl_training
    /\ Len(trajectories) > 0
    /\ Len(trajectories) >= buffer_size * count_of_batches * batch_size

\* C12: with training disabled update_parameters does nothing: the three pools,
\* the step counter, the model mode and the checkpoint are as before and no
\* metric is emitted.
C12_DisabledUpdateIsNoOp ==
    /\ [][(pc = "update" /\ ~is_rl_training /\ pc' # pc)
            => /\ pc' = "sleep"
               /\ UNCHANGED <<pool, trajectories, aliased, win_trajectories,
                              final_trajectories, batch, ep_id, batch_id, steps,
                              model_mode, checkpoints, metrics, batches, raised>>]_vars
    /\ [](~is_rl_training
            => /\ steps = 0 /\ checkpoints = 0 /\ metrics = 0
               /\ model_mode = "eval"
               /\ batches = <<>>
               /\ ~raised
               /\ trajectories = pool
               /\ Len(pool) = sent)
C12_Witness ==
    /\ ~is_rl_training
    /\ pc = "stopped"
    /\ update_calls = 2
    /\ Len(trajectories) > 0
    /\ Len(win_trajectories) > 0
    /\ Len(final_trajectories) > 0

\* C13: the step counter never decreases; it grows by batch_size *
\* sequence_length per processed mini-batch and so by num_epochs *
\* count_of_batches * batch_size * sequence_length over one complete
\* update_parameters call with training enabled.
C13_StepCounter ==
    /\ [][steps' >= steps]_vars
    /\ [][(metrics' # metrics)
            => (metrics' = metrics + 1
                  /\ steps' = steps + batch_size * sequence_length)]_vars
    /\ [][(steps' # steps) => metrics' = metrics + 1]_vars
    /\ []((~raised /\ pc \notin {"train_mode", "minibatch"})
            => steps = Len(batches) * num_epochs * count_of_batches
                          * batch_size * sequence_length)
C13_Witness ==
    /\ ~raised
    /\ pc = "stopped"
    /\ Len(batches) = 2
    /\ num_epochs = 2
    /\ count_of_batches = 2
    /\ steps = 2 * 2 * 2 * batch_size * sequence_length

SameElements(a, b) == Len(a) = Len(b) /\ Range(a) = Range(b)

\* C14: after a mixed-sampling pass on a win pool of more than 128 elements the
\* pool holds exactly size - wins_taken elements, the taken ones cut from the
\* head of the shuffled pool; a win pool of 128 or fewer keeps its length and
\* its elements (it is only shuffled).  The same for the final pool with 64.
C14_ClassPoolTrim ==
    last_call \in {"mixed", "mixed_raised"} =>
       LET taken_win == IF last_call = "mixed"
                          THEN SubSeq(Last(batches), 1, drawn[1]) ELSE <<>>
           taken_final == IF last_call = "mixed"
                            THEN SubSeq(Last(batches), drawn[1] + 1, drawn[1] + drawn[2])
                            ELSE <<>>
       IN
       /\ IF Len(before.win) > 128
            THEN /\ Len(win_trajectories) = Len(before.win) - drawn[1]
                 /\ last_call = "mixed" =>
                       SameElements(taken_win \o win_trajectories, before.win)
            ELSE SameElements(win_trajectories, before.win)
       /\ IF Len(before.final) > 64
            THEN /\ Len(final_trajectories) = Len(before.final) - drawn[2]
                 /\ last_call = "mixed" =>
                       SameElements(taken_final \o final_trajectories, before.final)
            ELSE SameElements(final_trajectories, before.final)
C14_Witness ==
    /\ last_call = "mixed"
    /\ Len(before.win) = 129 /\ drawn[1] = 1 /\ Len(win_trajectories) = 128
    /\ Len(before.final) = 65 /\ drawn[2] = 1 /\ Len(final_trajectories) = 64

\* C15: with an empty win pool mixed sampling puts no win trajectory in the
\* batch although the win quota is not zero; the other pools fill the batch and
\* the win pool stays empty.
C15_EmptyWinPool ==
    (last_call \in {"mixed", "mixed_raised"} /\ Len(before.win) = 0)
    => /\ drawn[1] = 0
       /\ win_trajectories = <<>>
       /\ Len(before.trajectories) >= count_of_batches * batch_size - drawn[2]
            => /\ last_call = "mixed"
               /\ \A k \in 1..Len(Last(batches)) : Last(batches)[k][1] # "win"
               /\ drawn[2] + drawn[3] = count_of_batches * batch_size
               /\ Len(Last(batches)) = count_of_batches * batch_size
C15_Witness ==
    /\ last_call = "mixed"
    /\ Len(before.win) = 0
    /\ count_of_batches * batch_size >= 10
    /\ drawn = <<0, 1, count_of_batches * batch_size - 1>>
    /\ win_trajectories = <<>>

\* C16: when the pools cannot supply sample_size trajectories the sampling call
\* raises instead of returning a shorter batch: get_normal_trajectories on an
\* ordinary pool shorter than sample_size, and get_mixed_trajectories whose
\* ordinary pool does not cover the residual, return no batch and remove nothing
\* from the ordinary pool.
C16_InsufficientRaises ==
    [][(calls' # calls) =>
         /\ (last_call' \in {"normal", "normal_raised"}
               /\ Len(trajectories) < count_of_batches * batch_size)
              => last_call' = "normal_raised"
         /\ (last_call' \in {"mixed", "mixed_raised"}
               /\ Len(trajectories)
                     < count_of_batches * batch_size - drawn'[1] - drawn'[2])
              => last_call' = "mixed_raised"
         /\ last_call' \in {"normal_raised", "mixed_raised"}
              => /\ batches' = batches
                 /\ SameElements(trajectories', trajectories)
                 /\ (last_call' = "normal_raised" \/ ~use_random_sample)
                       => trajectories' = trajectories]_vars
C16_Witness ==
    /\ last_call = "mixed_raised"
    /\ drawn[1] > 0
    /\ Len(trajectories) > 0
    /\ trajectories = before.trajectories
    /\ Len(batches) < calls

\* C17: after a completed update, once the trajectories appended and not yet
\* sampled reach the threshold again, the gate of the run loop triggers another
\* update: trajectories appended after the first update are seen by the loop.
C17_LaterAppendsSeen ==
    [][(pc = "gate" /\ pc' # pc /\ Len(batches) >= 1
          /\ sent - Len(Flatten(batches)) >= buffer_size * count_of_batches * batch_size)
       => pc' = "update"]_vars

\* C18: within one update_parameters call the checkpoint is written once, after
\* the last mini-batch of the last epoch and while the model is still in
\* training mode; the model returns to evaluation mode only after the write; a
\* raise in the mini-batch loop leaves the cycle without a checkpoint.
C18_CheckpointOncePerUpdate ==
    /\ [][(checkpoints' # checkpoints)
            => /\ checkpoints' = checkpoints + 1
               /\ pc = "save"
               /\ ep_id = num_epochs /\ batch_id = 0
               /\ metrics = Len(batches) * num_epochs * count_of_batches
               /\ model_mode = "train"
               /\ checkpoints' = Len(batches)]_vars
    /\ [][(model_mode = "train" /\ model_mode' = "eval")
            => /\ checkpoints = Len(batches)
               /\ checkpoints' = checkpoints]_vars
    /\ [][(pc = "minibatch" /\ pc' = "except")
            => /\ checkpoints' = checkpoints
               /\ checkpoints = Len(batches) - 1]_vars
    /\ [][raised => checkpoints' = checkpoints]_vars
    /\ [](checkpoints <= Len(batches) /\ checkpoints >= Len(batches) - 1)
    /\ []((~raised /\ pc \notin {"train_mode", "minibatch", "save"})
            => checkpoints = Len(batches))
C18_Witness ==
    /\ pc = "stopped"
    /\ ~raised
    /\ model_mode = "eval"
    /\ num_epochs = 2 /\ count_of_batches = 2
    /\ Len(batches) = 2
    /\ metrics = 8
    /\ checkpoints = 2

\* C20: for buffer_size >= 1, whatever the producers append, every update the
\* run loop triggers finds at least sample_size trajectories in the ordinary
\* pool when it samples: the length assertion of get_normal_trajectories does
\* not fail inside the loop.
C20_GateCoversSample ==
    buffer_size >= 1
    => /\ pc = "sample" => Len(trajectories) >= count_of_batches * batch_size
       /\ pc \in {"rebind", "train_mode", "minibatch", "save"}
            => Len(batch) = count_of_batches * batch_size
       /\ raised => Len(batches) = checkpoints + 1
C20_Witness ==
    /\ pc = "sample"
    /\ buffer_size = 1
    /\ appends > 0
    /\ Len(batches) = 1
    /\ Len(trajectories) = count_of_batches * batch_size

\* C19: once started the run loop terminates: it reaches Stopped by expiry of
\* the time-to-live or by the first exception, and waits at no step.
C19_RunTerminates == (pc = "run") ~> (pc = "stopped")
C19_Witness ==
    /\ pc = "stopped"
    /\ ~raised
    /\ IsNumber(max_time_for_training)
    /\ clock - start_time >= max_time_for_training[1]
    /\ iterations >= 2
    /\ Len(batches) >= 1

====
